---- MODULE Spec2Model ----
(***************************************************************************)
(* Model of the AskMyDocs chat client (rag_frontend/src/App.jsx): the      *)
(* React state of the App component, its event handlers, the requests in   *)
(* flight with the values their closures captured, and the remote service  *)
(* they talk to.  A handler runs up to its await in one step; the          *)
(* continuation after the await runs in one step when the response is      *)
(* delivered, reading the state variables as the closure captured them.    *)
(***************************************************************************)
EXTENDS Naturals, Sequences, FiniteSets, Bags

\* ---- bounds of the model -------------------------------------------------
MaxOps == 3         \* requests the user's actions may start
MaxInFlight == 2    \* requests in flight when the user starts another
MaxThreads == 3     \* thread ids the service hands out
MaxMsgs == 2        \* messages a thread holds on the service

\* ---- values --------------------------------------------------------------
NoToken == 0
NoUser == "none"
Alice == "alice"
NoThread == [id |-> 0, title |-> ""]
NewTitle == "New Chat"
DocTitle == "Doc Chat"

\* the texts the user types into the message input (characters as strings)
InputTexts == { <<>>, <<" ">>, <<" ", "a">> }

\* failure messages apiCall can raise (server-provided, or the fallback)
GenericError == "An error occurred"
ServerError == "Server says no"
ErrMsgs == { GenericError, ServerError }

RECURSIVE TrimLeft(_)
TrimLeft(s) ==
  IF s = <<>> THEN <<>>
  ELSE IF Head(s) = " " THEN TrimLeft(Tail(s)) ELSE s

RECURSIVE TrimRight(_)
TrimRight(s) ==
  IF s = <<>> THEN <<>>
  ELSE IF s[Len(s)] = " " THEN TrimRight(SubSeq(s, 1, Len(s) - 1)) ELSE s

\* String.prototype.trim
Trim(s) == TrimRight(TrimLeft(s))

Msg(t, k, r) == [thread |-> t, n |-> k, role |-> r]

RECURSIVE Filter(_, _)
\* threads.filter(t => t.id !== threadId)
Filter(ts, tid) ==
  IF ts = <<>> THEN <<>>
  ELSE IF Head(ts).id # tid THEN <<Head(ts)>> \o Filter(Tail(ts), tid)
       ELSE Filter(Tail(ts), tid)

\* threads.map(t => t.id === id ? {...t, title} : t)
Retitle(ts, tid, ttl) ==
  [i \in 1..Len(ts) |-> IF ts[i].id = tid THEN [ts[i] EXCEPT !.title = ttl] ELSE ts[i]]

Ids(ts) == { ts[i].id : i \in 1..Len(ts) }

VARIABLES
  \* React state of App
  user, token, authError, authLoading,
  threads, currentThread, messages,
  messageInput, sendLoading, uploadLoading,
  error, success, hasUploadedDoc,
  \* localStorage 'token'
  lsToken,
  \* requests in flight (a bag: two identical calls are two requests) and
  \* the number of calls the user has started
  reqs, started,
  \* the remote service
  srvRegistered, srvToken, srvTokSeq, srvThreads, srvNextId, srvMsgs, srvDocs, srvTitle,
  \* the handler step that produced the current state
  last

authVars == <<user, token, authError, authLoading, lsToken>>
storeVars == <<threads, currentThread, messages, hasUploadedDoc>>
uiVars == <<messageInput, sendLoading, uploadLoading, error, success>>
netVars == <<reqs, started>>
srvVars == <<srvRegistered, srvToken, srvTokSeq, srvThreads, srvNextId, srvMsgs, srvDocs, srvTitle>>
vars == <<authVars, storeVars, uiVars, netVars, srvVars, last>>

ThreadIds == 1..MaxThreads

\* ---- requests ------------------------------------------------------------
\* One record shape for every call: what was asked (kind, tid, good; for a
\* selectThread call and a thread-list refresh also seq, which orders the
\* calls of its kind by the time they were issued), what the
\* calling closure captured (tok, cThreads, cCur, cMsgs, cTitle), and, once the
\* service has answered (st = "ok" or "fail"), what the response carries.
BlankReq ==
  [ kind |-> "", st |-> "sent", tok |-> NoToken, tid |-> 0, good |-> FALSE, seq |-> 0,
    cThreads |-> <<>>, cCur |-> NoThread, cMsgs |-> <<>>, cTitle |-> "",
    msg |-> "", rTok |-> NoToken, rUser |-> NoUser, rThreads |-> <<>>, rThread |-> NoThread,
    rMsgs |-> <<>>, rDocs |-> 0, rUpd |-> FALSE, rTitle |-> "" ]

Req(k, tk) == [BlankReq EXCEPT !.kind = k, !.tok = tk]

InFlight == BagToSet(reqs)
Sends(rs) == SetToBag(rs)
Sent(r) == reqs (+) SetToBag({r})
\* calls of one kind (to one thread, or to any with t = 0) the service has yet to answer
Pending(k, t) ==
  BagCardinality([r \in { x \in InFlight : x.kind = k /\ x.st = "sent" /\ (t = 0 \/ x.tid = t) } |-> reqs[r]])

\* last: the handler step that produced the current state (op, and the thread
\* id it was about; "none" after a step of the service, a timer or typing),
\* and what the steps so far have established:
\*   rt    progress of a createThread -> selectThread round trip: 1 create
\*         called, 2 answered with thread id, 3 applied, 4 select of id called,
\*         5 answered, 6 applied; 0 when any other step came in between;
\*   sel   the highest seq of a selectThread call whose response was applied;
\*   ref   the highest seq of a thread-list refresh whose response was applied;
\*   valid whether the service has confirmed the token now in memory.
Step(op, tid) ==
  [op |-> op, id |-> tid, rt |-> 0, sel |-> last.sel, ref |-> last.ref, valid |-> last.valid]
Chain(op, tid, n) == [Step(op, tid) EXCEPT !.rt = n]

\* fetchThreads, up to its await: the call to /threads/ with the token of the
\* closure; n is the number of calls the user had started when it was issued,
\* which never decreases from one refresh to a later one
Refresh(tk, n) == [Req("threads", tk) EXCEPT !.seq = n]

\* the effect without its second call: if (token) { fetchCurrentUser(); }
InitializeUserOnly(tk, n) ==
  IF tk # NoToken THEN Sends({ Req("user", tk) }) ELSE EmptyBag

\* useEffect on [token]: if (token) { fetchCurrentUser(); fetchThreads(); }
Initialize(tk, n) ==
  IF tk # NoToken THEN Sends({ Req("user", tk), Refresh(tk, n) }) ELSE EmptyBag

\* ---- the remote service as the client meets it on start -----------------
\* An account that already exists owns two threads: thread 1 holds one
\* exchange and a document, thread 2 is new and empty.
PresetMsgs == [t \in ThreadIds |-> IF t = 1 THEN <<Msg(1, 1, "user"), Msg(1, 2, "assistant")>> ELSE <<>>]
PresetDocs == [t \in ThreadIds |-> IF t = 1 THEN 1 ELSE 0]
PresetTitle == [t \in ThreadIds |-> IF t = 1 THEN DocTitle ELSE NewTitle]

\* The four starts: a first visit (no account), a returning visitor who is
\* logged out, one whose persisted token is still valid, one whose persisted
\* token has expired.  useState(localStorage.getItem('token')) and the mount
\* effect have run.
Init ==
  /\ \E start \in {"first", "loggedOut", "valid", "expired"} :
       /\ srvRegistered = (start # "first")
       /\ lsToken = IF start \in {"valid", "expired"} THEN 1 ELSE NoToken
       /\ srvToken = IF start = "valid" THEN 1 ELSE NoToken
       /\ srvTokSeq = IF start \in {"valid", "expired"} THEN 1 ELSE 0
       /\ srvThreads = IF start = "first" THEN <<>> ELSE <<2, 1>>
       /\ srvNextId = IF start = "first" THEN 1 ELSE 3
       /\ srvMsgs = IF start = "first" THEN [t \in ThreadIds |-> <<>>] ELSE PresetMsgs
       /\ srvDocs = IF start = "first" THEN [t \in ThreadIds |-> 0] ELSE PresetDocs
       /\ srvTitle = IF start = "first" THEN [t \in ThreadIds |-> NewTitle] ELSE PresetTitle
  /\ token = lsToken
  /\ user = NoUser
  /\ authError = ""
  /\ authLoading = FALSE
  /\ threads = <<>>
  /\ currentThread = NoThread
  /\ messages = <<>>
  /\ messageInput = <<>>
  /\ sendLoading = FALSE
  /\ uploadLoading = FALSE
  /\ error = ""
  /\ success = ""
  /\ hasUploadedDoc = FALSE
  /\ reqs = Initialize(token, 0)
  /\ started = 0
  /\ last = [op |-> "mount", id |-> 0, rt |-> 0, sel |-> 0, ref |-> 0, valid |-> FALSE]

\* ---- what the page lets the user do --------------------------------------
\* if (!token) return <auth form>; otherwise the chat interface
ShowsAuthForm == token = NoToken
ShowsChat == token # NoToken
\* the messages container: !currentThread ? the welcome panel
\* : messages.length === 0 ? "Loading messages..." : the messages
MessagesContainer ==
  IF currentThread = NoThread THEN "Empty"
  ELSE IF Len(messages) = 0 THEN "Loading" ELSE "Ready"

CanStart == started < MaxOps /\ BagCardinality(reqs) < MaxInFlight

\* ---- handlers, up to their await -----------------------------------------
\* handleLogin / handleRegister: the submit button is disabled while authLoading
SubmitAuth(kind, good) ==
  /\ ShowsAuthForm /\ ~authLoading /\ CanStart
  /\ authLoading' = TRUE
  /\ authError' = ""
  /\ reqs' = Sent([Req(kind, token) EXCEPT !.good = good])
  /\ started' = started + 1
  /\ last' = Step(kind, 0)
  /\ UNCHANGED <<user, token, lsToken, storeVars, uiVars, srvVars>>

HandleLogin == \E good \in BOOLEAN : SubmitAuth("login", good)

HandleRegister == SubmitAuth("register", TRUE)

\* the request handleLogout sends, with the token its closure holds
LogoutCall(tk) == Req("logout", tk)

\* handleLogout from the Logout button
HandleLogout ==
  /\ ShowsChat /\ CanStart
  /\ reqs' = Sent(LogoutCall(token))
  /\ started' = started + 1
  /\ last' = Step("logout", 0)
  /\ UNCHANGED <<authVars, storeVars, uiVars, srvVars>>

\* createNewThread
CreateNewThread ==
  /\ ShowsChat /\ CanStart
  /\ srvNextId + Pending("create", 0) <= MaxThreads
  /\ reqs' = Sent([Req("create", token) EXCEPT !.cThreads = threads])
  /\ started' = started + 1
  /\ last' = Chain("create", 0, 1)
  /\ UNCHANGED <<authVars, storeVars, uiVars, srvVars>>

\* selectThread(thread), thread an entry of the rendered list
SelectThread ==
  /\ ShowsChat /\ CanStart
  /\ \E i \in 1..Len(threads) :
       /\ reqs' = Sent([Req("select", token) EXCEPT !.tid = threads[i].id, !.seq = started + 1])
       /\ last' = Chain("select", threads[i].id,
                         IF last.rt = 3 /\ last.id = threads[i].id THEN 4 ELSE 0)
  /\ started' = started + 1
  /\ UNCHANGED <<authVars, storeVars, uiVars, srvVars>>

\* deleteThread that takes the thread out of the list before the call is answered
DeleteThreadOptimistic ==
  /\ ShowsChat /\ CanStart
  /\ \E i \in 1..Len(threads) :
       /\ reqs' = Sent([Req("delete", token) EXCEPT
                          !.tid = threads[i].id, !.cThreads = threads, !.cCur = currentThread])
       /\ last' = Step("delete", threads[i].id)
       /\ threads' = Filter(threads, threads[i].id)
  /\ started' = started + 1
  /\ UNCHANGED <<authVars, currentThread, messages, hasUploadedDoc, uiVars, srvVars>>

\* deleteThread(threadId, e) with the confirm dialog accepted
DeleteThread ==
  /\ ShowsChat /\ CanStart
  /\ \E i \in 1..Len(threads) :
       /\ reqs' = Sent([Req("delete", token) EXCEPT
                                 !.tid = threads[i].id, !.cThreads = threads, !.cCur = currentThread])
       /\ last' = Step("delete", threads[i].id)
  /\ started' = started + 1
  /\ UNCHANGED <<authVars, storeVars, uiVars, srvVars>>

\* onChange of the message input (disabled while sendLoading)
SetMessageInput ==
  /\ ShowsChat /\ currentThread # NoThread /\ ~sendLoading
  /\ \E v \in InputTexts : v # messageInput /\ messageInput' = v
  /\ last' = Step("none", 0)
  /\ UNCHANGED <<authVars, storeVars, sendLoading, uploadLoading, error, success,
                 netVars, srvVars>>

\* the guard without trim(): if (!messageInput || !currentThread) return;
SendRejectedUntrimmed(text, cur) == text = <<>> \/ cur = NoThread

\* if (!messageInput.trim() || !currentThread) return;
SendRejected(text, cur) == Trim(text) = <<>> \/ cur = NoThread

\* sendMessage, from the Send button or Enter in the input
SendMessage ==
  /\ ShowsChat /\ ~sendLoading
  /\ last' = Step("send", currentThread.id)
  /\ IF SendRejected(messageInput, currentThread)
       THEN UNCHANGED <<authVars, storeVars, uiVars, netVars, srvVars>>
       ELSE /\ CanStart
            /\ Len(srvMsgs[currentThread.id])
                 + 2 * Pending("send", currentThread.id) + 2 <= MaxMsgs
            /\ sendLoading' = TRUE
            /\ error' = ""
            /\ reqs' = Sent([Req("send", token) EXCEPT
                                      !.tid = currentThread.id, !.cMsgs = messages])
            /\ started' = started + 1
            /\ UNCHANGED <<authVars, storeVars, messageInput, uploadLoading, success, srvVars>>

\* handleFileUpload with a file chosen (the attach button is disabled while
\* uploadLoading and rendered only with a thread selected)
HandleFileUpload ==
  /\ ShowsChat /\ currentThread # NoThread /\ ~uploadLoading /\ CanStart
  /\ uploadLoading' = TRUE
  /\ error' = ""
  /\ reqs' = Sent([Req("upload", token) EXCEPT
                            !.tid = currentThread.id, !.cCur = currentThread, !.cThreads = threads])
  /\ started' = started + 1
  /\ last' = Step("upload", currentThread.id)
  /\ UNCHANGED <<authVars, storeVars, messageInput, sendLoading, success, srvVars>>

\* setTimeout(() => setError(''), 3000) firing.  Every handler that sets an
\* error also sets this timeout, and a timeout that fires on an empty error
\* changes nothing, so one is pending exactly while an error shows.
ErrorTimeout ==
  /\ error # ""
  /\ error' = ""
  /\ last' = Step("none", 0)
  /\ UNCHANGED <<authVars, storeVars, messageInput, sendLoading, uploadLoading, success,
                 netVars, srvVars>>

\* setTimeout(() => setSuccess(''), ...) firing, likewise
SuccessTimeout ==
  /\ success # ""
  /\ success' = ""
  /\ last' = Step("none", 0)
  /\ UNCHANGED <<authVars, storeVars, messageInput, sendLoading, uploadLoading, error,
                 netVars, srvVars>>

\* ---- the remote service --------------------------------------------------
\* Authorization: Token <token>, as apiCall attaches it from its closure
Authorized(r) == r.tok # NoToken /\ r.tok = srvToken

Answer(r, a) == reqs' = (reqs (-) SetToBag({r})) (+) SetToBag({a})

ThreadData(t) == [id |-> t, title |-> srvTitle[t]]

Exists(t) == \E i \in 1..Len(srvThreads) : srvThreads[i] = t

RECURSIVE Without(_, _)
Without(ids, t) ==
  IF ids = <<>> THEN <<>>
  ELSE IF Head(ids) = t THEN Without(Tail(ids), t) ELSE <<Head(ids)>> \o Without(Tail(ids), t)

\* the token a successful login or registration returns
IssuedToken == IF srvToken # NoToken THEN srvToken ELSE srvTokSeq + 1

\* a non-2xx status or a transport failure: nothing is done on the service
ServiceFails ==
  \E r \in InFlight :
    /\ r.st = "sent"
    /\ \E m \in ErrMsgs :
         /\ (r.kind \notin {"login", "register", "upload", "refetch"} => m = GenericError)
         /\ Answer(r, [r EXCEPT !.st = "fail", !.msg = m])
    /\ last' = Step("none", 0)
    /\ UNCHANGED <<authVars, storeVars, uiVars, started, srvVars>>

\* POST /auth/login/, POST /auth/register/ -> {token, user}
ServiceAuth ==
  \E r \in InFlight :
    /\ r.st = "sent" /\ r.kind \in {"login", "register"}
    /\ IF r.kind = "login" THEN srvRegistered /\ r.good ELSE ~srvRegistered
    /\ srvRegistered' = TRUE
    /\ srvToken' = IssuedToken
    /\ srvTokSeq' = IF srvToken # NoToken THEN srvTokSeq ELSE srvTokSeq + 1
    /\ Answer(r, [r EXCEPT !.st = "ok", !.rTok = IssuedToken, !.rUser = Alice])
    /\ last' = Step("none", 0)
    /\ UNCHANGED <<authVars, storeVars, uiVars, started,
                   srvThreads, srvNextId, srvMsgs, srvDocs, srvTitle>>

\* POST /auth/logout/ -> no content; the token stops being valid
ServiceLogout ==
  \E r \in InFlight :
    /\ r.st = "sent" /\ r.kind = "logout" /\ Authorized(r)
    /\ srvToken' = NoToken
    /\ Answer(r, [r EXCEPT !.st = "ok"])
    /\ last' = Step("none", 0)
    /\ UNCHANGED <<authVars, storeVars, uiVars, started,
                   srvRegistered, srvTokSeq, srvThreads, srvNextId, srvMsgs, srvDocs, srvTitle>>

\* GET /auth/user/, GET /threads/, GET /threads/{id}/
ServiceRead ==
  \E r \in InFlight :
    /\ r.st = "sent" /\ r.kind \in {"user", "threads", "select", "refetch"} /\ Authorized(r)
    /\ (r.kind \in {"select", "refetch"} => Exists(r.tid))
    /\ Answer(r, CASE r.kind = "user" -> [r EXCEPT !.st = "ok", !.rUser = Alice]
                   [] r.kind = "threads" ->
                        [r EXCEPT !.st = "ok",
                                  !.rThreads = [i \in 1..Len(srvThreads) |-> ThreadData(srvThreads[i])]]
                   [] OTHER ->
                        [r EXCEPT !.st = "ok", !.rThread = ThreadData(r.tid),
                                  !.rMsgs = srvMsgs[r.tid], !.rDocs = srvDocs[r.tid]])
    /\ last' = IF last.rt = 4 /\ r.kind = "select" /\ r.tid = last.id
                 THEN Chain("none", r.tid, 5)
                 ELSE Step("none", 0)
    /\ UNCHANGED <<authVars, storeVars, uiVars, started, srvVars>>

\* POST /threads/ -> the new thread: no messages, no document
ServiceCreate ==
  \E r \in InFlight :
    /\ r.st = "sent" /\ r.kind = "create" /\ Authorized(r)
    /\ srvNextId <= MaxThreads
    /\ srvThreads' = <<srvNextId>> \o srvThreads
    /\ srvNextId' = srvNextId + 1
    /\ srvMsgs' = [srvMsgs EXCEPT ![srvNextId] = <<>>]
    /\ srvDocs' = [srvDocs EXCEPT ![srvNextId] = 0]
    /\ srvTitle' = [srvTitle EXCEPT ![srvNextId] = NewTitle]
    /\ Answer(r, [r EXCEPT !.st = "ok", !.tid = srvNextId,
                           !.rThread = [id |-> srvNextId, title |-> NewTitle]])
    /\ last' = IF last.rt = 1 THEN Chain("none", srvNextId, 2) ELSE Step("none", 0)
    /\ UNCHANGED <<authVars, storeVars, uiVars, started, srvRegistered, srvToken, srvTokSeq>>

\* DELETE /threads/{id}/ -> no content
ServiceDelete ==
  \E r \in InFlight :
    /\ r.st = "sent" /\ r.kind = "delete" /\ Authorized(r) /\ Exists(r.tid)
    /\ srvThreads' = Without(srvThreads, r.tid)
    /\ Answer(r, [r EXCEPT !.st = "ok"])
    /\ last' = Step("none", 0)
    /\ UNCHANGED <<authVars, storeVars, uiVars, started,
                   srvRegistered, srvToken, srvTokSeq, srvNextId, srvMsgs, srvDocs, srvTitle>>

\* POST /threads/{id}/send_message/ -> {user_message, assistant_message}
ServiceSend ==
  \E r \in InFlight :
    /\ r.st = "sent" /\ r.kind = "send" /\ Authorized(r) /\ Exists(r.tid)
    /\ Len(srvMsgs[r.tid]) + 2 <= MaxMsgs
    /\ LET k == Len(srvMsgs[r.tid])
           pair == <<Msg(r.tid, k + 1, "user"), Msg(r.tid, k + 2, "assistant")>>
       IN /\ srvMsgs' = [srvMsgs EXCEPT ![r.tid] = @ \o pair]
          /\ Answer(r, [r EXCEPT !.st = "ok", !.rMsgs = pair])
    /\ last' = Step("none", 0)
    /\ UNCHANGED <<authVars, storeVars, uiVars, started,
                   srvRegistered, srvToken, srvTokSeq, srvThreads, srvNextId, srvDocs, srvTitle>>

\* POST /threads/{id}/upload_document/ -> {updated_message_id?, thread_title?}
\* With updated_message_id the service has rewritten the thread's first
\* message (or written one into an empty thread) to mention the document.
ServiceUpload ==
  \E r \in InFlight :
    /\ r.st = "sent" /\ r.kind = "upload" /\ Authorized(r) /\ Exists(r.tid)
    /\ \E upd \in BOOLEAN, ttl \in BOOLEAN :
         /\ srvDocs' = [srvDocs EXCEPT ![r.tid] = @ + 1]
         /\ srvTitle' = [srvTitle EXCEPT ![r.tid] = IF ttl THEN DocTitle ELSE @]
         /\ srvMsgs' = [srvMsgs EXCEPT ![r.tid] =
                          IF upd THEN <<Msg(r.tid, 1, "system")>> \o (IF @ = <<>> THEN <<>> ELSE Tail(@))
                          ELSE @]
         /\ Answer(r, [r EXCEPT !.st = "ok", !.rUpd = upd, !.rTitle = IF ttl THEN DocTitle ELSE ""])
    /\ last' = Step("none", 0)
    /\ UNCHANGED <<authVars, storeVars, uiVars, started,
                   srvRegistered, srvToken, srvTokSeq, srvThreads, srvNextId>>

Service ==
  \/ ServiceFails
  \/ ServiceAuth
  \/ ServiceLogout
  \/ ServiceRead
  \/ ServiceCreate
  \/ ServiceDelete
  \/ ServiceSend
  \/ ServiceUpload

\* ---- handlers, after their await -----------------------------------------
Done(r) == reqs (-) SetToBag({r})

\* handleLogin / handleRegister, try block: setToken, setUser, localStorage.setItem;
\* the token changed, so the effect on [token] runs
AuthSucceeds ==
  \E r \in InFlight :
    /\ r.kind \in {"login", "register"} /\ r.st = "ok"
    /\ token' = r.rTok
    /\ user' = r.rUser
    /\ lsToken' = r.rTok
    /\ authLoading' = FALSE
    /\ reqs' = Done(r) (+) (IF r.rTok # token THEN Initialize(r.rTok, started) ELSE EmptyBag)
    /\ last' = [Step(IF r.kind = "login" THEN "loginOk" ELSE "registerOk", 0) EXCEPT !.valid = TRUE]
    /\ UNCHANGED <<authError, storeVars, uiVars, started, srvVars>>

\* the catch block reached after setToken: the token of the failed call is kept
AuthFailsKeepsToken ==
  \E r \in InFlight :
    /\ r.kind \in {"login", "register"} /\ r.st = "fail"
    /\ token' = IssuedToken
    /\ authError' = r.msg
    /\ authLoading' = FALSE
    /\ reqs' = Done(r)
    /\ last' = Step(IF r.kind = "login" THEN "loginFail" ELSE "registerFail", 0)
    /\ UNCHANGED <<user, lsToken, storeVars, uiVars, started, srvVars>>

\* handleLogin / handleRegister, catch block: setAuthError(err.message)
AuthFails ==
  \E r \in InFlight :
    /\ r.kind \in {"login", "register"} /\ r.st = "fail"
    /\ authError' = r.msg
    /\ authLoading' = FALSE
    /\ reqs' = Done(r)
    /\ last' = Step(IF r.kind = "login" THEN "loginFail" ELSE "registerFail", 0)
    /\ UNCHANGED <<user, token, lsToken, storeVars, uiVars, started, srvVars>>

\* fetchCurrentUser, try block: setUser(data)
UserFetched ==
  \E r \in InFlight :
    /\ r.kind = "user" /\ r.st = "ok"
    /\ user' = r.rUser
    /\ reqs' = Done(r)
    /\ last' = [Step("userOk", 0) EXCEPT !.valid = @ \/ (token # NoToken /\ r.tok = token)]
    /\ UNCHANGED <<token, authError, authLoading, lsToken, storeVars, uiVars, started, srvVars>>

\* a catch block that shows the failure before logging out
UserRejectedSurfaces ==
  \E r \in InFlight :
    /\ r.kind = "user" /\ r.st = "fail"
    /\ error' = r.msg
    /\ reqs' = Done(r) (+) Sends({ LogoutCall(r.tok) })
    /\ last' = Step("userFail", 0)
    /\ UNCHANGED <<authVars, storeVars, messageInput, sendLoading, uploadLoading, success,
                   started, srvVars>>

\* fetchCurrentUser, catch block: handleLogout(), which awaits the logout call
UserRejected ==
  \E r \in InFlight :
    /\ r.kind = "user" /\ r.st = "fail"
    /\ reqs' = Done(r) (+) Sends({ LogoutCall(r.tok) })
    /\ last' = Step("userFail", 0)
    /\ UNCHANGED <<authVars, storeVars, uiVars, started, srvVars>>

\* handleLogout, finally block
LoggedOut ==
  \E r \in InFlight :
    /\ r.kind = "logout" /\ r.st \in {"ok", "fail"}
    /\ token' = NoToken
    /\ user' = NoUser
    /\ threads' = <<>>
    /\ currentThread' = NoThread
    /\ messages' = <<>>
    /\ lsToken' = NoToken
    /\ reqs' = Done(r)
    /\ last' = [Step(IF r.st = "ok" THEN "logoutOk" ELSE "logoutFail", 0) EXCEPT !.valid = FALSE]
    /\ UNCHANGED <<authError, authLoading, hasUploadedDoc, uiVars, started, srvVars>>

\* fetchThreads: setThreads(data); a failure is only logged
ThreadsFetched ==
  \E r \in InFlight :
    /\ r.kind = "threads" /\ r.st \in {"ok", "fail"}
    /\ threads' = IF r.st = "ok" THEN r.rThreads ELSE threads
    /\ reqs' = Done(r)
    /\ last' = [Step(IF r.st = "ok" THEN "threadsOk" ELSE "threadsFail", 0)
                  EXCEPT !.ref = IF r.st = "ok" /\ r.seq > @ THEN r.seq ELSE @]
    /\ UNCHANGED <<authVars, currentThread, messages, hasUploadedDoc, uiVars, started, srvVars>>

\* setThreads([data, ...threads]) with the list the closure holds
Prepended(data, closureThreads) == <<data>> \o closureThreads

\* createNewThread, try block
ThreadCreated ==
  \E r \in InFlight :
    /\ r.kind = "create" /\ r.st = "ok"
    /\ threads' = Prepended(r.rThread, r.cThreads)
    /\ currentThread' = r.rThread
    /\ messages' = r.rMsgs
    /\ hasUploadedDoc' = FALSE
    /\ success' = "New chat created!"
    /\ reqs' = Done(r)
    /\ last' = Chain("createOk", r.rThread.id,
                      IF last.rt = 2 /\ last.id = r.rThread.id THEN 3 ELSE 0)
    /\ UNCHANGED <<authVars, messageInput, sendLoading, uploadLoading, error, started, srvVars>>

\* a catch block that surfaces a notification:
\* setError(m); setTimeout(() => setError(''), 3000)
Surfaces(m) == error' = m

\* createNewThread, catch block
CreateFails ==
  \E r \in InFlight :
    /\ r.kind = "create" /\ r.st = "fail"
    /\ Surfaces("Failed to create new thread")
    /\ reqs' = Done(r)
    /\ last' = Step("createFail", 0)
    /\ UNCHANGED <<authVars, storeVars, messageInput, sendLoading, uploadLoading, success, started, srvVars>>

\* the test off by one: data.documents.length >= 0
HasDocOffByOne(n) == n >= 0

\* const hasDoc = data.documents && data.documents.length > 0
HasDoc(n) == n > 0

\* selectThread, try block
ThreadSelected ==
  \E r \in InFlight :
    /\ r.kind = "select" /\ r.st = "ok"
    /\ currentThread' = r.rThread
    /\ messages' = r.rMsgs
    /\ hasUploadedDoc' = HasDoc(r.rDocs)
    /\ reqs' = Done(r)
    /\ last' = [Chain("selectOk", r.tid, IF last.rt = 5 /\ last.id = r.tid THEN 6 ELSE 0)
                  EXCEPT !.sel = IF r.seq > @ THEN r.seq ELSE @]
    /\ UNCHANGED <<authVars, threads, uiVars, started, srvVars>>

\* a catch block that treats the failure as the end of the session
SelectFailsDropsToken ==
  \E r \in InFlight :
    /\ r.kind = "select" /\ r.st = "fail"
    /\ Surfaces("Failed to load thread")
    /\ lsToken' = NoToken
    /\ reqs' = Done(r)
    /\ last' = Step("selectFail", r.tid)
    /\ UNCHANGED <<user, token, authError, authLoading, storeVars, messageInput, sendLoading,
                   uploadLoading, success, started, srvVars>>

\* selectThread, catch block
SelectFails ==
  \E r \in InFlight :
    /\ r.kind = "select" /\ r.st = "fail"
    /\ Surfaces("Failed to load thread")
    /\ reqs' = Done(r)
    /\ last' = Step("selectFail", r.tid)
    /\ UNCHANGED <<authVars, storeVars, messageInput, sendLoading, uploadLoading, success, started, srvVars>>

\* deleteThread, try block: setThreads(threads.filter(...)) and, if the
\* closure's currentThread is the deleted one, the selection is cleared
ThreadDeleted ==
  \E r \in InFlight :
    /\ r.kind = "delete" /\ r.st = "ok"
    /\ threads' = Filter(r.cThreads, r.tid)
    /\ IF r.cCur.id = r.tid
         THEN /\ currentThread' = NoThread
              /\ messages' = <<>>
              /\ hasUploadedDoc' = FALSE
         ELSE UNCHANGED <<currentThread, messages, hasUploadedDoc>>
    /\ success' = "Chat deleted!"
    /\ reqs' = Done(r)
    /\ last' = Step("deleteOk", r.tid)
    /\ UNCHANGED <<authVars, messageInput, sendLoading, uploadLoading, error, started, srvVars>>

\* deleteThread, catch block
DeleteFails ==
  \E r \in InFlight :
    /\ r.kind = "delete" /\ r.st = "fail"
    /\ Surfaces("Failed to delete thread")
    /\ reqs' = Done(r)
    /\ last' = Step("deleteFail", r.tid)
    /\ UNCHANGED <<authVars, storeVars, messageInput, sendLoading, uploadLoading, success, started, srvVars>>

\* sendMessage, try block: setMessages([...messages, user_message, assistant_message]),
\* setMessageInput(''), fetchThreads(); finally setSendLoading(false)
MessageSent ==
  \E r \in InFlight :
    /\ r.kind = "send" /\ r.st = "ok"
    /\ messages' = r.cMsgs \o r.rMsgs
    /\ messageInput' = <<>>
    /\ sendLoading' = FALSE
    /\ reqs' = Done(r) (+) Sends({ Refresh(r.tok, started) })
    /\ last' = Step("sendOk", r.tid)
    /\ UNCHANGED <<authVars, threads, currentThread, hasUploadedDoc, uploadLoading, error, success,
                   started, srvVars>>

\* a catch block that also resets the input: setMessageInput('')
SendFailsClearsInput ==
  \E r \in InFlight :
    /\ r.kind = "send" /\ r.st = "fail"
    /\ Surfaces("Failed to send message")
    /\ messageInput' = <<>>
    /\ sendLoading' = FALSE
    /\ reqs' = Done(r)
    /\ last' = Step("sendFail", r.tid)
    /\ UNCHANGED <<authVars, storeVars, uploadLoading, success, started, srvVars>>

\* sendMessage, catch block; finally setSendLoading(false)
SendFails ==
  \E r \in InFlight :
    /\ r.kind = "send" /\ r.st = "fail"
    /\ Surfaces("Failed to send message")
    /\ sendLoading' = FALSE
    /\ reqs' = Done(r)
    /\ last' = Step("sendFail", r.tid)
    /\ UNCHANGED <<authVars, storeVars, messageInput, uploadLoading, success, started, srvVars>>

\* if (data.thread_title) { setCurrentThread({...currentThread, title}); setThreads(threads.map(...)) }
\* then setSuccess('Document uploaded!'); finally setUploadLoading(false)
UploadFinishes(r, ttl) ==
  /\ IF ttl # ""
       THEN /\ currentThread' = [r.cCur EXCEPT !.title = ttl]
            /\ threads' = Retitle(r.cThreads, r.cCur.id, ttl)
       ELSE UNCHANGED <<currentThread, threads>>
  /\ success' = "Document uploaded!"
  /\ uploadLoading' = FALSE

\* handleFileUpload, the upload call answered without updated_message_id
Uploaded ==
  \E r \in InFlight :
    /\ r.kind = "upload" /\ r.st = "ok" /\ ~r.rUpd
    /\ UploadFinishes(r, r.rTitle)
    /\ reqs' = Done(r)
    /\ last' = Step("uploadOk", r.tid)
    /\ UNCHANGED <<authVars, messages, hasUploadedDoc, messageInput, sendLoading, error, started, srvVars>>

\* handleFileUpload, the upload call answered with updated_message_id:
\* the thread is fetched again before anything is set
UploadedRefetch ==
  \E r \in InFlight :
    /\ r.kind = "upload" /\ r.st = "ok" /\ r.rUpd
    /\ reqs' = Done(r) (+) Sends({ [Req("refetch", r.tok) EXCEPT
                                       !.tid = r.cCur.id, !.cCur = r.cCur, !.cThreads = r.cThreads,
                                       !.cTitle = r.rTitle] })
    /\ last' = Step("uploadRefetch", r.tid)
    /\ UNCHANGED <<authVars, storeVars, uiVars, started, srvVars>>

\* handleFileUpload, the second fetch answered: setMessages(threadData.messages || []),
\* setHasUploadedDoc(true), then the title and the notification
Refetched ==
  \E r \in InFlight :
    /\ r.kind = "refetch" /\ r.st = "ok"
    /\ messages' = r.rMsgs
    /\ hasUploadedDoc' = TRUE
    /\ UploadFinishes(r, r.cTitle)
    /\ reqs' = Done(r)
    /\ last' = Step("refetchOk", r.tid)
    /\ UNCHANGED <<authVars, messageInput, sendLoading, error, started, srvVars>>

\* handleFileUpload, catch block: setError(err.message || 'Failed to upload document');
\* finally setUploadLoading(false)
UploadFails ==
  \E r \in InFlight :
    /\ r.kind \in {"upload", "refetch"} /\ r.st = "fail"
    /\ Surfaces(r.msg)
    /\ uploadLoading' = FALSE
    /\ reqs' = Done(r)
    /\ last' = Step("uploadFail", r.tid)
    /\ UNCHANGED <<authVars, storeVars, messageInput, sendLoading, success, started, srvVars>>

\* the close button of the error notification: setError('')
DismissError ==
  /\ ShowsChat /\ error # ""
  /\ error' = ""
  /\ last' = Step("none", 0)
  /\ UNCHANGED <<authVars, storeVars, messageInput, sendLoading, uploadLoading, success,
                 netVars, srvVars>>

Next ==
  \/ HandleLogin
  \/ HandleRegister
  \/ HandleLogout
  \/ CreateNewThread
  \/ SelectThread
  \/ DeleteThread
  \/ SetMessageInput
  \/ SendMessage
  \/ HandleFileUpload
  \/ DismissError
  \/ ErrorTimeout
  \/ SuccessTimeout
  \/ Service
  \/ AuthSucceeds
  \/ AuthFails
  \/ UserFetched
  \/ UserRejected
  \/ LoggedOut
  \/ ThreadsFetched
  \/ ThreadCreated
  \/ CreateFails
  \/ ThreadSelected
  \/ SelectFails
  \/ ThreadDeleted
  \/ DeleteFails
  \/ MessageSent
  \/ SendFails
  \/ Uploaded
  \/ UploadedRefetch
  \/ Refetched
  \/ UploadFails

Spec == Init /\ [][Next]_vars

\* ---- shapes the statements below share ----------------------------------
\* the continuation of request r runs in this step
Resumes(r) == r \in InFlight /\ r.st # "sent" /\ CopiesIn(r, reqs') + 1 = CopiesIn(r, reqs)

OnlySpaces(text) == \A i \in 1..Len(text) : text[i] = " "

TypeOK ==
  /\ token \in Nat /\ lsToken \in Nat
  /\ user \in {NoUser, Alice}
  /\ authLoading \in BOOLEAN /\ sendLoading \in BOOLEAN /\ uploadLoading \in BOOLEAN
  /\ hasUploadedDoc \in BOOLEAN
  /\ messageInput \in InputTexts
  /\ started \in 0..MaxOps
  /\ \A i \in 1..Len(threads) : threads[i].id \in ThreadIds
  /\ currentThread = NoThread \/ currentThread.id \in ThreadIds

\* ---- C1 -------------------------------------------------------------------
\* C1: when selectThread(A) was called before selectThread(B) and A's response
\* is processed after B's, the selection stays B's: the step that processes
\* the response of a selectThread call older than one already applied leaves
\* the selected thread and the message list as they are.
C1_LaterSelectionWins ==
  [][\A r \in InFlight :
       (r.kind = "select" /\ r.st = "ok" /\ Resumes(r) /\ r.seq < last.sel)
         => (currentThread' = currentThread /\ messages' = messages)]_vars

\* ---- C2 -------------------------------------------------------------------
\* C2: every message in the message list belongs to the selected thread; with
\* no thread selected the list is empty.
C2_MessagesBelongToSelection ==
  ShowsChat =>
    \A i \in 1..Len(messages) :
      currentThread # NoThread /\ messages[i].thread = currentThread.id

\* ---- C3 -------------------------------------------------------------------
\* C3: deleteThread(id) takes the thread out of the list only when its delete
\* call is answered with success: calling it leaves the list as it is, a
\* failed call leaves the list as it is and sets the error notification, and
\* the step that processes the success leaves the list without id.
C3_DeleteOnlyOnSuccess ==
  [][/\ last'.op = "delete" => threads' = threads
     /\ last'.op = "deleteFail" =>
          (threads' = threads /\ error' = "Failed to delete thread")
     /\ last'.op = "deleteOk" => last'.id \notin Ids(threads')]_vars

\* a delete call failed and the thread is still listed, with the error shown
C3_Witness ==
  /\ last.op = "deleteFail"
  /\ last.id \in Ids(threads)
  /\ error = "Failed to delete thread"

\* ---- C4 -------------------------------------------------------------------
\* C4: sendMessage called with an empty or whitespace-only input, or with no
\* thread selected, sends no request and changes no field of the stores.
C4_BlankSendDoesNothing ==
  [][(last'.op = "send" /\ (OnlySpaces(messageInput) \/ currentThread = NoThread))
       => UNCHANGED <<authVars, storeVars, uiVars, netVars>>]_vars

\* sendMessage has run on a whitespace-only input with a thread selected
C4_Witness ==
  /\ last.op = "send"
  /\ messageInput = <<" ">>
  /\ currentThread # NoThread
  /\ BagCardinality(reqs) = 0

\* ---- C5 -------------------------------------------------------------------
\* C5: when logout() has finished, with the server call answered or failed,
\* the token, the user, the persisted token, the thread list, the selected
\* thread, its messages and its document flag are all cleared.
C5_LogoutClearsEverything ==
  last.op \in {"logoutOk", "logoutFail"} =>
    /\ token = NoToken /\ user = NoUser /\ lsToken = NoToken
    /\ threads = <<>> /\ currentThread = NoThread /\ messages = <<>>
    /\ hasUploadedDoc = FALSE

\* ---- C6 -------------------------------------------------------------------
\* C6: the step that processes createThread's success leaves the new thread
\* first in the list, followed by the entries the list held just before,
\* selects it, empties the message list and clears the document flag.
C6_CreatePrependsAndSelects ==
  [][last'.op = "createOk" =>
       /\ currentThread'.id = last'.id
       /\ threads' = <<currentThread'>> \o threads
       /\ messages' = <<>>
       /\ hasUploadedDoc' = FALSE]_vars

\* ---- C7 -------------------------------------------------------------------
\* C7: createThread() succeeding with a thread id, then selectThread of that
\* id succeeding, with no other step between the call of createThread and
\* the end of selectThread, ends with that thread selected, no messages and
\* the document flag false.
C7_CreateThenSelectRoundTrip ==
  last.rt = 6 =>
    /\ currentThread.id = last.id
    /\ messages = <<>>
    /\ hasUploadedDoc = FALSE

\* the round trip has completed: the select of the created thread was applied
C7_Witness == last.op = "selectOk" /\ last.rt = 6 /\ last.id \in ThreadIds

\* ---- C8 -------------------------------------------------------------------
\* C8: the user object is present exactly when a token is present and the
\* service has confirmed it.
C8_UserIffValidatedToken ==
  (user # NoUser) <=> (token # NoToken /\ last.valid)

\* ---- C9 -------------------------------------------------------------------
\* C9: a token comes into memory or into storage only in the step that
\* processes a login or register response carrying both a token and a user,
\* and that step stores both; the step that processes a failed login or
\* register leaves token, user and persisted token alone and shows the
\* failure's message.
C9_AuthenticatedOnlyWithTokenAndUser ==
  [][/\ ((token' # token /\ token' # NoToken) \/ (lsToken' # lsToken /\ lsToken' # NoToken))
          => \E r \in InFlight :
               /\ r.kind \in {"login", "register"} /\ r.st = "ok" /\ Resumes(r)
               /\ r.rTok # NoToken /\ r.rUser # NoUser
               /\ token' = r.rTok /\ lsToken' = r.rTok /\ user' = r.rUser
     /\ \A r \in InFlight :
          (r.kind \in {"login", "register"} /\ r.st = "fail" /\ Resumes(r))
            => (token' = token /\ user' = user /\ lsToken' = lsToken
                /\ authError' = r.msg /\ r.msg # "")]_vars

\* a login was answered with a token and a user, and both are stored
C9_Witness ==
  /\ last.op = "loginOk"
  /\ token # NoToken /\ lsToken = token /\ user = Alice

\* ---- C10 ------------------------------------------------------------------
\* C10: the persisted token is written only by the step that processes a
\* successful login or register, and cleared only by the end of handleLogout
\* (called from the button or from a rejected current-user check); every
\* other step leaves it as it is.
C10_PersistedTokenFrame ==
  [][lsToken' # lsToken =>
       \/ lsToken' # NoToken /\ last'.op \in {"loginOk", "registerOk"}
       \/ lsToken' = NoToken /\ last'.op \in {"logoutOk", "logoutFail"}]_vars

\* a thread call failed while logged in and the persisted token is still there
C10_Witness ==
  /\ last.op \in {"selectFail", "deleteFail", "createFail", "sendFail", "uploadFail"}
  /\ lsToken # NoToken

\* a request of kind k with token tk comes into flight in this step
Issues(k, tk) ==
  \E q \in BagToSet(reqs') :
    /\ q.kind = k /\ q.st = "sent" /\ q.tok = tk
    /\ CopiesIn(q, reqs') = CopiesIn(q, reqs) + 1

\* the kinds of call that change, or replace the client's view of, a thread
Mutating == {"send", "upload", "refetch", "select", "create", "delete"}

\* ---- C11 ------------------------------------------------------------------
\* C11: the step that processes a successful sendMessage leaves the message
\* list as it stood just before the step with the two returned messages
\* appended, user message then assistant message, and clears the input; no
\* message the list held is removed or replaced, whatever completed while
\* the send was in flight.
C11_SendAppendsPair ==
  [][\A r \in InFlight :
       (r.kind = "send" /\ r.st = "ok" /\ Resumes(r))
         => /\ Len(r.rMsgs) = 2
            /\ messages' = messages \o r.rMsgs
            /\ messageInput' = <<>>]_vars

\* ---- C12 ------------------------------------------------------------------
\* C12: with a thread selected and no send, upload, select, create or delete
\* in flight, the message list is the service's message list of the selected
\* thread.
C12_MessagesMatchService ==
  (/\ ShowsChat
   /\ currentThread # NoThread
   /\ \A r \in InFlight : r.kind \notin Mutating)
    => messages = srvMsgs[currentThread.id]

\* ---- C13 ------------------------------------------------------------------
\* C13: the step that ends a sendMessage whose request was issued, with the
\* request answered or failed, issues a thread-list refresh.
C13_RefreshAfterEverySend ==
  [][\A r \in InFlight :
       (r.kind = "send" /\ r.st # "sent" /\ Resumes(r)) => Issues("threads", r.tok)]_vars

\* ---- C14 ------------------------------------------------------------------
\* C14: while logged out (from the clear of logout to the next successful
\* login or register) the user, the thread list, the selected thread and the
\* messages stay cleared: no response to a request issued before the logout
\* is applied.
C14_NothingAppliedAfterLogout ==
  ShowsAuthForm =>
    /\ user = NoUser
    /\ threads = <<>>
    /\ currentThread = NoThread
    /\ messages = <<>>

\* ---- C15 ------------------------------------------------------------------
\* C15: an upload to the selected thread T answered with an updated message
\* id fetches T again; when that fetch is answered, with T still selected and
\* a title in the upload's response, the message list becomes the fetched
\* list, the document flag becomes true, the selected thread and the list
\* entry with id T take the title, every other entry of the list stays as it
\* is, and the success notification is set.
C15_UploadRefetchReplaces ==
  [][\A r \in InFlight :
       /\ (r.kind = "upload" /\ r.st = "ok" /\ r.rUpd /\ Resumes(r))
            => \E q \in BagToSet(reqs') :
                 /\ q.kind = "refetch" /\ q.tid = r.tid /\ q.st = "sent"
                 /\ CopiesIn(q, reqs') = CopiesIn(q, reqs) + 1
       /\ (/\ r.kind = "refetch" /\ r.st = "ok" /\ Resumes(r)
           /\ r.cTitle # "" /\ currentThread.id = r.tid)
            => /\ messages' = r.rMsgs
               /\ hasUploadedDoc' = TRUE
               /\ currentThread' = [currentThread EXCEPT !.title = r.cTitle]
               /\ threads' = Retitle(threads, r.tid, r.cTitle)
               /\ success' = "Document uploaded!"]_vars

\* ---- C16 ------------------------------------------------------------------
\* C16: the step that handles a failed selectThread, sendMessage or upload
\* call sets an error notification and leaves the thread list, the selected
\* thread, the message list, the document flag and the input as they were.
C16_FailureLeavesStores ==
  [][last'.op \in {"selectFail", "sendFail", "uploadFail"}
       => (error' # "" /\ UNCHANGED <<storeVars, messageInput>>)]_vars

\* a send failed: the typed text is still in the input and the error shows
C16_Witness ==
  /\ last.op = "sendFail"
  /\ messageInput = <<" ", "a">>
  /\ error = "Failed to send message"
  /\ currentThread # NoThread

\* ---- C17 ------------------------------------------------------------------
\* C17: when the current-user fetch of a start with a persisted token fails,
\* handleLogout runs: the step that handles the failure issues the logout
\* call and surfaces no error, and the step that ends handleLogout clears the
\* token, the user, the persisted token, the thread list, the selection and
\* the messages, again surfacing no error.
C17_RejectedRestoreLogsOutSilently ==
  [][/\ \A r \in InFlight :
          (r.kind = "user" /\ r.st = "fail" /\ Resumes(r))
            => (Issues("logout", r.tok) /\ error' = error)
     /\ last'.op \in {"logoutOk", "logoutFail"}
          => /\ token' = NoToken /\ user' = NoUser /\ lsToken' = NoToken
             /\ threads' = <<>> /\ currentThread' = NoThread /\ messages' = <<>>
             /\ error' = error]_vars

\* the user has started no call: the logout that has just ended came from the
\* rejected current-user fetch of the start, and no error shows
C17_Witness ==
  /\ last.op \in {"logoutOk", "logoutFail"}
  /\ started = 0
  /\ token = NoToken /\ lsToken = NoToken /\ user = NoUser
  /\ error = ""

C19_ReadyOnceFetched ==
  /\ (MessagesContainer = "Empty") <=> (currentThread = NoThread)
  /\ (ShowsChat /\ last.op = "selectOk") => MessagesContainer = "Ready"

\* ---- C20 ------------------------------------------------------------------
\* C20: the response of a thread-list refresh issued before one whose
\* response was already applied is discarded: the step that processes it
\* leaves the thread list as the later refresh set it.
C20_StaleRefreshDiscarded ==
  [][\A r \in InFlight :
       (r.kind = "threads" /\ r.st = "ok" /\ Resumes(r) /\ r.seq < last.ref)
         => threads' = threads]_vars

\* ---- C21 ------------------------------------------------------------------
\* C21: the step that processes the success of createNewThread, of
\* deleteThread or of an upload that carries a title computes the new thread
\* list from the list as it stands in that step: the created thread is put
\* before it, the deleted thread is filtered out of it, the title is set in
\* it, so no entry another operation added is dropped and no entry whose
\* delete was confirmed comes back.
C21_ListUpdatesFromCurrentList ==
  [][\A r \in InFlight :
       (r.st = "ok" /\ Resumes(r)) =>
         /\ r.kind = "create" => threads' = <<r.rThread>> \o threads
         /\ r.kind = "delete" => threads' = Filter(threads, r.tid)
         /\ (r.kind = "upload" /\ ~r.rUpd /\ r.rTitle # "")
              => threads' = Retitle(threads, r.tid, r.rTitle)
         /\ (r.kind = "refetch" /\ r.cTitle # "")
              => threads' = Retitle(threads, r.tid, r.cTitle)]_vars

====
